---- MODULE Spec2Model ----
(***************************************************************************)
(* The snake game of src/src/app/page.tsx (the React component SnakeGame)  *)
(* as a state machine.                                                     *)
(*                                                                         *)
(* The state is the component's seven useState cells, its three ref        *)
(* mirrors, and the interval armed by the game-loop effect together with   *)
(* the values its moveSnake closure captured.  One step of the machine is  *)
(* either one event handler (a key, a button, a swipe, a timer tick) run   *)
(* up to the commit of the render it causes, or the pass of the effects    *)
(* that this commit triggers (useEffect runs after the commit).  While a   *)
(* commit's effects are pending no other event is taken: React flushes     *)
(* pending effects before it handles the next event.                       *)
(***************************************************************************)
EXTENDS Integers, Sequences, FiniteSets, TLC

VARIABLES
    snake,          \* useState<Position[]>, head first            (line 18)
    food,           \* useState<Position>                          (line 19)
    direction,      \* useState<Direction>                         (line 20)
    gameOver,       \* useState(false)                             (line 21)
    isPaused,       \* useState(true)                              (line 22)
    score,          \* useState(0)                                 (line 23)
    speed,          \* useState(initialSpeed): the tick interval   (line 24)
    directionRef,   \* useRef(direction)                           (line 27)
    gameOverRef,    \* useRef(gameOver)                            (line 28)
    isPausedRef,    \* useRef(isPaused)                            (line 29)
    gameInterval,   \* the armed intervals, each with the food, speed and
                    \* snake that its moveSnake closure captured  (line 174)
    changedDeps,    \* effect dependencies changed by the last commit
    requested,      \* the direction the pending "input" asked for, or "NONE"
    op              \* the kind of handler whose commit awaits its effects:
                    \* "mount", "tick", "input" (a direction request),
                    \* "pause", "restart"; or "idle"

vars == <<snake, food, direction, gameOver, isPaused, score, speed,
          directionRef, gameOverRef, isPausedRef, gameInterval, changedDeps,
          requested, op>>

\* What the player sees and the timer: everything but the model's bookkeeping.
gameVars == <<snake, food, direction, gameOver, isPaused, score, speed, gameInterval>>

-----------------------------------------------------------------------------
(* Program constants *)

gridSize == 20

initialSpeed == 150

minSpeed == 50

speedStep == 2

foodScore == 10

(* Bounds of the model *)

\* The longest snake followed from the start of a game.
MaxSnakeLen == 2

-----------------------------------------------------------------------------
(* Data *)

Directions == {"UP", "DOWN", "LEFT", "RIGHT"}

Pos(x, y) == [x |-> x, y |-> y]

initialSnake == <<Pos(10, 10)>>

initialFood == Pos(5, 5)

Abs(n) == IF n < 0 THEN -n ELSE n

\* The cells Math.random is taken to draw: the cell the game starts on, the
\* cell in front of it, and a cell far from both, next to {1,1}.
RandomCells == {Pos(10, 10), Pos(11, 10), Pos(2, 1)}

\* The points a touch is taken to report as (clientX, clientY).
TouchPoints == {Pos(0, 1), Pos(1, 1), Pos(2, 1), Pos(1, 2)}

\* The keys a keydown is taken to report; "x" stands for every other key.
DirectionKeys == {"ArrowUp", "w", "W", "ArrowDown", "s", "S",
                  "ArrowLeft", "a", "A", "ArrowRight", "d", "D"}

Keys == DirectionKeys \cup {" ", "x"}

-----------------------------------------------------------------------------
(* generateFood: a random cell, drawn again while it lies on the snake the  *)
(* callback closed over.  The set of the values it can return.              *)

isOnSnake(newFood, s) == \E i \in 1..Len(s) : s[i].x = newFood.x /\ s[i].y = newFood.y

generateFood(s) == {newFood \in RandomCells : ~isOnSnake(newFood, s)}

-----------------------------------------------------------------------------
(* The pieces of moveSnake's updater *)

NewHead_flipped(head, d) ==
    CASE d = "UP"    -> Pos(head.x, head.y + 1)
      [] d = "DOWN"  -> Pos(head.x, head.y - 1)
      [] d = "LEFT"  -> Pos(head.x - 1, head.y)
      [] d = "RIGHT" -> Pos(head.x + 1, head.y)

NewHead(head, d) ==
    CASE d = "UP"    -> Pos(head.x, head.y - 1)
      [] d = "DOWN"  -> Pos(head.x, head.y + 1)
      [] d = "LEFT"  -> Pos(head.x - 1, head.y)
      [] d = "RIGHT" -> Pos(head.x + 1, head.y)

HitsWall_offByOne(head) ==
    head.x < 0 \/ head.x > gridSize \/ head.y < 0 \/ head.y > gridSize

HitsWall(head) ==
    head.x < 0 \/ head.x >= gridSize \/ head.y < 0 \/ head.y >= gridSize

HitsSelf_sparesTail(head, prevSnake) ==
    \E index \in 2..(Len(prevSnake) - 1) :
        prevSnake[index].x = head.x /\ prevSnake[index].y = head.y

HitsSelf_neckOnly(head, prevSnake) ==
    /\ Len(prevSnake) >= 2
    /\ prevSnake[2].x = head.x /\ prevSnake[2].y = head.y

\* index > 0 of the 0-based array: every segment but the head.
HitsSelf(head, prevSnake) ==
    \E index \in 2..Len(prevSnake) :
        prevSnake[index].x = head.x /\ prevSnake[index].y = head.y

EatsFood(head, f) == head.x = f.x /\ head.y = f.y

SpeedAfterFood_noFloor(closureSpeed, prev) == prev - speedStep

SpeedAfterFood_atFloor(closureSpeed, prev) ==
    IF closureSpeed >= minSpeed THEN prev - speedStep ELSE prev

SpeedAfterFood_slower(closureSpeed, prev) ==
    IF closureSpeed > minSpeed THEN prev + speedStep ELSE prev

\* if (speed > 50) setSpeed(prev => prev - 2): the test reads the closure's speed.
SpeedAfterFood(closureSpeed, prev) ==
    IF closureSpeed > minSpeed THEN prev - speedStep ELSE prev

Grown_dropsTail(head, prevSnake) ==
    <<head>> \o SubSeq(prevSnake, 1, Len(prevSnake) - 1)

\* newSnake = [head, ...prevSnake]
Grown(head, prevSnake) == <<head>> \o prevSnake

\* newSnake = [head, ...prevSnake]; newSnake.pop()
Moved(head, prevSnake) == <<head>> \o SubSeq(prevSnake, 1, Len(prevSnake) - 1)

-----------------------------------------------------------------------------
(* The late game.  speed reaches minSpeed only after fifty foods, with a   *)
(* snake of fifty-one segments: lateSnake is the snake of a game that went *)
(* from (10,10) to (18,7) without eating and then ate at each of the next  *)
(* forty-nine ticks, along row 7 to the wall, back along row 8, forth      *)
(* along row 9 and back along row 10 to (12,10).                           *)

lateSnake ==
    [i \in 1..8 |-> Pos(11 + i, 10)] \o [i \in 1..20 |-> Pos(20 - i, 9)]
        \o [i \in 1..20 |-> Pos(i - 1, 8)] \o <<Pos(19, 7), Pos(18, 7)>>

\* The cells a snake that long is followed over: the free cells in front of
\* lateSnake's head, and the cells of its own body above them.
LateCells == {Pos(x, y) : x \in 9..12, y \in 9..11}

\* The snakes the model follows: up to MaxSnakeLen segments anywhere on the
\* grid, and the late snake, grown by up to MaxSnakeLen, while its head stays
\* in LateCells.
Followed(s) ==
    \/ Len(s) <= MaxSnakeLen
    \/ /\ Len(s) >= Len(lateSnake)
       /\ Len(s) <= Len(lateSnake) + MaxSnakeLen
       /\ s[1] \in LateCells

-----------------------------------------------------------------------------
(* Direction requests *)

\* handleKeyDown's switch: the direction a key asks for.
KeyDirection(key) ==
    CASE key \in {"ArrowUp", "w", "W"}    -> "UP"
      [] key \in {"ArrowDown", "s", "S"}  -> "DOWN"
      [] key \in {"ArrowLeft", "a", "A"}  -> "LEFT"
      [] key \in {"ArrowRight", "d", "D"} -> "RIGHT"
      [] OTHER -> "NONE"

KeyAccepts_any(current, asked) == TRUE

\* handleKeyDown: if (directionRef.current !== 'DOWN') setDirection('UP'), ...
KeyAccepts(current, asked) ==
    \/ asked = "UP" /\ current # "DOWN"
    \/ asked = "DOWN" /\ current # "UP"
    \/ asked = "LEFT" /\ current # "RIGHT"
    \/ asked = "RIGHT" /\ current # "LEFT"

\* handleDirectionChange's condition.
ButtonAccepts(current, newDirection) ==
    \/ newDirection = "UP" /\ current # "DOWN"
    \/ newDirection = "DOWN" /\ current # "UP"
    \/ newDirection = "LEFT" /\ current # "RIGHT"
    \/ newDirection = "RIGHT" /\ current # "LEFT"

\* handleTouchMove: the direction a touch that started at `start` and is now
\* at `end` swipes in (horizontal when |diffX| > |diffY|, left when diffX > 0,
\* up when diffY > 0), or "NONE" when it has not moved.
SwipeDirection(start, end) ==
    LET diffX == start.x - end.x
        diffY == start.y - end.y
    IN  IF Abs(diffX) > Abs(diffY)
        THEN (IF diffX > 0 THEN "LEFT" ELSE IF diffX < 0 THEN "RIGHT" ELSE "NONE")
        ELSE (IF diffY > 0 THEN "UP" ELSE IF diffY < 0 THEN "DOWN" ELSE "NONE")

\* handleTouchMove: the test beside each setDirection.
SwipeAccepts(current, swiped) ==
    \/ swiped = "LEFT" /\ current # "RIGHT"
    \/ swiped = "RIGHT" /\ current # "LEFT"
    \/ swiped = "UP" /\ current # "DOWN"
    \/ swiped = "DOWN" /\ current # "UP"

TogglePaused_stuck(prev) == prev

\* setIsPaused(prev => !prev), setIsPaused(!isPaused)
TogglePaused(prev) == ~prev

RefDeps_noDirection(d, over, paused) ==
    IF over # gameOver \/ paused # isPaused THEN {"refs"} ELSE {}

\* The dependencies of the ref-mirror effect that a commit changes.
RefDeps(d, over, paused) ==
    IF d # direction \/ over # gameOver \/ paused # isPaused THEN {"refs"} ELSE {}

-----------------------------------------------------------------------------
(* The game loop's interval *)

Cleanup_none(intervals) == intervals

\* return () => clearInterval(gameInterval): the effect's interval is cleared
\* before the effect runs again.
Cleanup(intervals) == <<>>

\* const gameInterval = setInterval(moveSnake, speed)
Arm(intervals, closure) == Append(intervals, closure)

-----------------------------------------------------------------------------
(* The state of the first render: the useState initialisers, every effect  *)
(* still to run.                                                           *)

Init ==
    /\ snake = initialSnake
    /\ food = initialFood
    /\ direction = "RIGHT"
    /\ gameOver = FALSE
    /\ isPaused = TRUE
    /\ score = 0
    /\ speed = initialSpeed
    /\ directionRef = "RIGHT"
    /\ gameOverRef = FALSE
    /\ isPausedRef = TRUE
    /\ gameInterval = <<>>
    /\ changedDeps = {"refs", "snake", "food", "speed"}
    /\ requested = "NONE"
    /\ op = "mount"

-----------------------------------------------------------------------------
(* The effects of a commit, run to the end: the ref mirror when direction, *)
(* gameOver or isPaused changed; setFood(generateFood()) when generateFood *)
(* changed, which is when snake changed; the game loop when food,          *)
(* generateFood or speed changed, and again after the render that the      *)
(* food effect's setFood causes.  The game loop's cleanup clears the       *)
(* interval; it arms a new one unless the refs say paused or over.         *)

runEffects ==
    /\ op # "idle"
    /\ directionRef' = IF "refs" \in changedDeps THEN direction ELSE directionRef
    /\ gameOverRef' = IF "refs" \in changedDeps THEN gameOver ELSE gameOverRef
    /\ isPausedRef' = IF "refs" \in changedDeps THEN isPaused ELSE isPausedRef
    /\ IF "snake" \in changedDeps
       THEN \E newFood \in generateFood(snake) : food' = newFood
       ELSE food' = food
    /\ gameInterval' =
          IF changedDeps \cap {"snake", "food", "speed"} # {}
          THEN IF isPausedRef' \/ gameOverRef'
               THEN Cleanup(gameInterval)
               ELSE Arm(Cleanup(gameInterval),
                        [food |-> food', speed |-> speed, snake |-> snake])
          ELSE gameInterval
    /\ changedDeps' = {}
    /\ requested' = "NONE"
    /\ op' = "idle"
    /\ UNCHANGED <<snake, direction, gameOver, isPaused, score, speed>>

-----------------------------------------------------------------------------
(* moveSnake: one firing of the interval.  The updater reads the current   *)
(* snake and directionRef; food, speed and generateFood are the closure's. *)

moveSnake ==
    /\ op = "idle"
    /\ \E i \in 1..Len(gameInterval) :
       LET closure == gameInterval[i]
           head == NewHead(snake[1], directionRef)
       IN  IF HitsWall(head) \/ HitsSelf(head, snake)
           THEN /\ gameOver' = TRUE
                /\ changedDeps' = RefDeps(direction, TRUE, isPaused)
                /\ UNCHANGED <<snake, food, score, speed>>
           ELSE IF EatsFood(head, closure.food)
           THEN /\ Followed(Grown(head, snake))
                /\ snake' = Grown(head, snake)
                /\ \E newFood \in generateFood(closure.snake) : food' = newFood
                /\ score' = score + foodScore
                /\ speed' = SpeedAfterFood(closure.speed, speed)
                /\ changedDeps' = {"snake", "food"}
                       \cup (IF speed' # speed THEN {"speed"} ELSE {})
                /\ UNCHANGED gameOver
           ELSE /\ Followed(Moved(head, snake))
                /\ snake' = Moved(head, snake)
                /\ changedDeps' = {"snake"}
                /\ UNCHANGED <<food, score, speed, gameOver>>
    /\ op' = "tick"
    /\ UNCHANGED <<direction, isPaused, directionRef, gameOverRef, isPausedRef,
                   gameInterval, requested>>

-----------------------------------------------------------------------------
(* handleKeyDown *)

handleKeyDown(key) ==
    /\ op = "idle"
    /\ IF gameOverRef
       THEN UNCHANGED <<direction, isPaused>>
       ELSE IF key = " "
       THEN /\ isPaused' = TogglePaused(isPaused)
            /\ UNCHANGED direction
       ELSE IF key \in DirectionKeys /\ KeyAccepts(directionRef, KeyDirection(key))
       THEN /\ direction' = KeyDirection(key)
            /\ UNCHANGED isPaused
       ELSE UNCHANGED <<direction, isPaused>>
    /\ changedDeps' = RefDeps(direction', gameOver, isPaused')
    /\ requested' = IF gameOverRef THEN "NONE" ELSE KeyDirection(key)
    /\ op' = IF key = " " THEN "pause" ELSE "input"
    /\ UNCHANGED <<snake, food, gameOver, score, speed, directionRef, gameOverRef,
                   isPausedRef, gameInterval>>

(* handleDirectionChange: the four on-screen arrows *)

handleDirectionChange_whileOver(newDirection) ==
    /\ op = "idle"
    /\ IF ButtonAccepts(direction, newDirection)
       THEN direction' = newDirection
       ELSE UNCHANGED direction
    /\ changedDeps' = RefDeps(direction', gameOver, isPaused)
    /\ requested' = newDirection
    /\ op' = "input"
    /\ UNCHANGED <<snake, food, gameOver, isPaused, score, speed, directionRef,
                   gameOverRef, isPausedRef, gameInterval>>

handleDirectionChange(newDirection) ==
    /\ op = "idle"
    /\ IF ~gameOver /\ ButtonAccepts(direction, newDirection)
       THEN direction' = newDirection
       ELSE UNCHANGED direction
    /\ changedDeps' = RefDeps(direction', gameOver, isPaused)
    /\ requested' = IF gameOver THEN "NONE" ELSE newDirection
    /\ op' = "input"
    /\ UNCHANGED <<snake, food, gameOver, isPaused, score, speed, directionRef,
                   gameOverRef, isPausedRef, gameInterval>>

(* handleTouchStart followed by one handleTouchMove.  touchStartX and       *)
(* touchStartY are written by every touchstart before a touchmove reads     *)
(* them, and a further touchmove of the same touch reads what the last one  *)
(* wrote, as a new touch starting there would: they carry nothing from one  *)
(* step to the next and are no variables of the model.                      *)

handleTouchMove(start, end) ==
    /\ op = "idle"
    /\ IF start.x = 0 \/ start.y = 0 \/ gameOver
       THEN /\ requested' = "NONE"
            /\ UNCHANGED direction
       ELSE /\ requested' = SwipeDirection(start, end)
            /\ IF SwipeAccepts(directionRef, SwipeDirection(start, end))
               THEN direction' = SwipeDirection(start, end)
               ELSE UNCHANGED direction
    /\ changedDeps' = RefDeps(direction', gameOver, isPaused)
    /\ op' = "input"
    /\ UNCHANGED <<snake, food, gameOver, isPaused, score, speed, directionRef,
                   gameOverRef, isPausedRef, gameInterval>>

(* The Start / Pause button: setIsPaused(!isPaused) *)

pauseButton ==
    /\ op = "idle"
    /\ isPaused' = TogglePaused(isPaused)
    /\ changedDeps' = RefDeps(direction, gameOver, isPaused')
    /\ op' = "pause"
    /\ UNCHANGED <<snake, food, direction, gameOver, score, speed, directionRef,
                   gameOverRef, isPausedRef, gameInterval, requested>>

(* resetGame: the Restart button, and Play Again on the game-over overlay.  *)
(* generateFood is the one of the render the button was drawn in: it tests  *)
(* the snake of before the reset.                                           *)

resetSpeed_kept == speed

resetSpeed == initialSpeed

resetGame ==
    /\ op = "idle"
    /\ snake' = initialSnake
    /\ \E newFood \in generateFood(snake) : food' = newFood
    /\ direction' = "RIGHT"
    /\ gameOver' = FALSE
    /\ isPaused' = FALSE
    /\ score' = 0
    /\ speed' = resetSpeed
    /\ changedDeps' = {"snake", "food"}
           \cup RefDeps("RIGHT", FALSE, FALSE)
           \cup (IF speed' # speed THEN {"speed"} ELSE {})
    /\ op' = "restart"
    /\ UNCHANGED <<directionRef, gameOverRef, isPausedRef, gameInterval, requested>>

-----------------------------------------------------------------------------

Next ==
    \/ runEffects
    \/ moveSnake
    \/ \E key \in Keys : handleKeyDown(key)
    \/ \E newDirection \in Directions : handleDirectionChange(newDirection)
    \/ \E start \in TouchPoints, end \in TouchPoints : handleTouchMove(start, end)
    \/ pauseButton
    \/ resetGame

Spec == Init /\ [][Next]_vars

(* The late game: lateSnake just after its forty-ninth food, heading LEFT  *)
(* along row 10, in a game started by Restart.                             *)

InitLate ==
    /\ snake = lateSnake
    /\ food \in generateFood(lateSnake)
    /\ direction = "LEFT"
    /\ gameOver = FALSE
    /\ isPaused = FALSE
    /\ score = foodScore * (Len(lateSnake) - 1)
    /\ speed = initialSpeed - speedStep * (Len(lateSnake) - 1)
    /\ directionRef = "LEFT"
    /\ gameOverRef = FALSE
    /\ isPausedRef = FALSE
    /\ gameInterval = <<[food |-> food, speed |-> speed, snake |-> snake]>>
    /\ changedDeps = {}
    /\ requested = "NONE"
    /\ op = "idle"

SpecLate == InitLate /\ [][Next]_vars

-----------------------------------------------------------------------------
(* What the claims speak of, written out from their own words. *)

\* The current head shifted one cell in the current direction.
ClaimNewHead ==
    [x |-> snake[1].x + (IF direction = "RIGHT" THEN 1 ELSE IF direction = "LEFT" THEN -1 ELSE 0),
     y |-> snake[1].y + (IF direction = "DOWN" THEN 1 ELSE IF direction = "UP" THEN -1 ELSE 0)]

ClaimInGrid ==
    /\ 0 <= ClaimNewHead.x /\ ClaimNewHead.x < 20
    /\ 0 <= ClaimNewHead.y /\ ClaimNewHead.y < 20

ClaimOnSnake == \E i \in 1..Len(snake) : snake[i] = ClaimNewHead

ClaimReachesFood == ClaimInGrid /\ ~ClaimOnSnake /\ ClaimNewHead = food

\* A step that is one tick of the timer.
ClaimTick == op = "idle" /\ op' = "tick"

ClaimOpposite(d) ==
    CASE d = "UP" -> "DOWN" [] d = "DOWN" -> "UP"
      [] d = "LEFT" -> "RIGHT" [] d = "RIGHT" -> "LEFT"

\* What a direction request d leaves in direction: the current direction
\* when d is its opposite, and else d.
ClaimRequest(d) == IF d = ClaimOpposite(direction) THEN direction ELSE d

-----------------------------------------------------------------------------
\* C1: a tick whose new head is in the grid, on no segment and on the food
\* prepends the new head and keeps the tail (length + 1), adds exactly 10 to
\* score, and takes 2 off the tick interval if it was above 50 and leaves
\* it if it was 50.
C1_FoodTick ==
    [][ (ClaimTick /\ ClaimReachesFood)
        => /\ snake' = <<ClaimNewHead>> \o snake
           /\ Len(snake') = Len(snake) + 1
           /\ score' = score + 10
           /\ speed' = IF speed > 50 THEN speed - 2 ELSE speed
           /\ speed' >= 50 ]_vars

\* The late snake has eaten twice: the first food took the interval from
\* 52 to 50, the second left it at 50.
C1_Witness ==
    /\ op = "tick"
    /\ Len(snake) = Len(lateSnake) + 2
    /\ speed = 50
    /\ score = 510

\* C2: a tick that does not reach food keeps the length, score and tick
\* interval; unless it is a collision, the new snake is the new head (UP
\* y-1, DOWN y+1, LEFT x-1, RIGHT x+1) followed by the old snake without
\* its last segment.
C2_PlainTick ==
    [][ (ClaimTick /\ ~ClaimReachesFood)
        => /\ Len(snake') = Len(snake)
           /\ score' = score
           /\ speed' = speed
           /\ (ClaimInGrid /\ ~ClaimOnSnake)
                 => snake' = <<ClaimNewHead>> \o SubSeq(snake, 1, Len(snake) - 1) ]_vars

\* A snake of two segments has just moved up, off the row of the food cells.
C2_Witness ==
    /\ op = "tick"
    /\ snake = <<Pos(11, 9), Pos(11, 10)>>
    /\ direction = "UP"
    /\ score = 10
    /\ ~gameOver

\* C3: the food is never on a segment of the snake, in the state that
\* results from the operation that placed it as in every other.
C3_FoodOffSnake == \A i \in 1..Len(snake) : snake[i] # food

\* C4: a tick whose new head is outside the grid sets gameOver and leaves
\* the snake, score, food and tick interval as they were.
C4_WallTick ==
    [][ (ClaimTick /\ ~ClaimInGrid)
        => gameOver' /\ UNCHANGED <<snake, score, food, speed>> ]_vars

\* The scenario of the claim: [{0,5},{1,5}] heading LEFT has ticked.
C4_Witness ==
    /\ op = "tick"
    /\ gameOver
    /\ snake = <<Pos(0, 5), Pos(1, 5)>>
    /\ direction = "LEFT"

\* C5: a tick whose new head is in the grid and on a segment of the snake
\* as it is (the tail cell included) sets gameOver and leaves the snake,
\* score, food and tick interval as they were.
C5_SelfTick ==
    [][ (ClaimTick /\ ClaimInGrid /\ ClaimOnSnake)
        => gameOver' /\ UNCHANGED <<snake, score, food, speed>> ]_vars

\* The head at (11,10) has been turned back onto the tail cell (10,10).
C5_Witness ==
    /\ op = "tick"
    /\ gameOver
    /\ snake = <<Pos(11, 10), Pos(10, 10)>>
    /\ direction = "LEFT"

\* C6: while the game is not over, a direction request opposite to the
\* current direction changes nothing; any other request replaces direction
\* and changes nothing else; alike for keys, buttons and swipes, and the
\* effects of the request's render change nothing of the game.
C6_DirectionRequest ==
    [][ /\ (op = "idle" /\ op' = "input" /\ ~gameOver /\ requested' # "NONE")
              => /\ direction' = ClaimRequest(requested')
                 /\ UNCHANGED <<snake, food, gameOver, isPaused, score, speed, gameInterval>>
        /\ (op = "input" /\ op' = "idle") => UNCHANGED gameVars ]_vars

\* A running snake heading RIGHT has been asked to go LEFT, and goes on RIGHT.
C6_Witness ==
    /\ op = "input"
    /\ requested = "LEFT"
    /\ direction = "RIGHT"
    /\ gameInterval # <<>>
    /\ ~gameOver

\* C7: while isPaused stays true after a pause toggle, the snake, score,
\* food and tick interval do not change.  (The first render's effects place
\* the first food while the game has not been started; they are set apart.)
C7_PausedFrozen ==
    [][ (isPaused /\ isPaused' /\ op # "mount")
        => UNCHANGED <<snake, score, food, speed>> ]_vars

\* C8: once the render of a toggle that unpaused a game that is not over
\* has run its effects, the tick interval is armed (so that a tick fires).
C8_UnpauseArmsTick ==
    [][ (op = "pause" /\ op' = "idle" /\ ~isPaused' /\ ~gameOver')
        => gameInterval' # <<>> ]_vars

\* C9: restart sets snake [{10,10}], RIGHT, score 0, tick interval 150,
\* not paused, not over, in whatever state it is invoked; once its render's
\* effects have run the food is not on {10,10}, the refs and the interval's
\* closure hold the new game and nothing else, and the interval is armed.
C9_Restart ==
    [][ /\ (op = "idle" /\ op' = "restart")
              => /\ snake' = <<[x |-> 10, y |-> 10]>>
                 /\ direction' = "RIGHT" /\ score' = 0 /\ speed' = 150
                 /\ ~isPaused' /\ ~gameOver'
        /\ (op = "restart" /\ op' = "idle")
              => /\ snake' = <<[x |-> 10, y |-> 10]>>
                 /\ direction' = "RIGHT" /\ score' = 0 /\ speed' = 150
                 /\ ~isPaused' /\ ~gameOver'
                 /\ food' # [x |-> 10, y |-> 10]
                 /\ directionRef' = "RIGHT" /\ ~isPausedRef' /\ ~gameOverRef'
                 /\ gameInterval' = <<[food |-> food', speed |-> 150, snake |-> snake']>> ]_vars

\* Restart has been pressed on a game that was over with a grown snake.
C9_Witness ==
    /\ op = "restart"
    /\ gameOverRef
    /\ snake = <<Pos(10, 10)>>
    /\ gameInterval # <<>>
    /\ Len(gameInterval[1].snake) = 2

\* C10: a pause toggle (the button, or the space key, which is read only
\* while the game is not over) flips isPaused and leaves snake, food,
\* score, direction, tick interval and gameOver as they were, and so do the
\* effects of its render.
C10_TogglePause ==
    [][ /\ (pauseButton \/ (handleKeyDown(" ") /\ ~gameOver))
              => /\ isPaused' = ~isPaused
                 /\ UNCHANGED <<snake, food, score, direction, speed, gameOver>>
        /\ (op = "pause" /\ op' = "idle")
              => UNCHANGED <<snake, food, score, direction, speed, gameOver, isPaused>> ]_vars

\* A running game has just been paused.
C10_Witness ==
    /\ op = "pause"
    /\ isPaused
    /\ ~isPausedRef
    /\ gameInterval # <<>>
    /\ ~gameOver

-----------------------------------------------------------------------------

\* C11: in every reachable state the tick interval is an integer between 50
\* and 150, and from one state to the next it stays as it is unless restart
\* resets it or a tick whose new head reaches the food lowers it by 2.
C11_IntervalRange ==
    /\ [](speed \in Int /\ 50 <= speed /\ speed <= 150)
    /\ [][ (op' # "restart")
              => \/ speed' = speed
                 \/ /\ ClaimTick
                    /\ ClaimReachesFood
                    /\ speed' = speed - 2 ]_vars

\* The tick that eats the fiftieth food has just lowered the interval to 50.
C11_Witness ==
    /\ op = "tick"
    /\ Len(snake) = 51
    /\ speed = 50
    /\ "speed" \in changedDeps

\* C12: in every reachable state the snake has at least one segment, every
\* segment lies on the board (0 <= x < 20 and 0 <= y < 20), and no two
\* segments are on the same cell.
C12_SnakeWellFormed ==
    /\ Len(snake) >= 1
    /\ \A i \in 1..Len(snake) :
          /\ 0 <= snake[i].x /\ snake[i].x < 20
          /\ 0 <= snake[i].y /\ snake[i].y < 20
    /\ \A i, j \in 1..Len(snake) : (i # j) => (snake[i] # snake[j])

\* The fifty-one-segment snake has turned up into its own body, and the tick
\* has ended the game instead of moving it.
C12_Witness ==
    /\ op = "tick"
    /\ gameOver
    /\ Len(snake) = 51
    /\ direction = "UP"
    /\ isOnSnake(NewHead(snake[1], "UP"), snake)

\* The state the scenario starts from: a running game with snake [{1,1}]
\* heading RIGHT, score 0, tick interval 150 and the food on {2,1}.
ClaimScenarioStart ==
    /\ snake = <<[x |-> 1, y |-> 1]>>
    /\ direction = "RIGHT"
    /\ speed = 150
    /\ score = 0
    /\ food = [x |-> 2, y |-> 1]
    /\ ~gameOver

\* C13 as stated: from snake [{1,1}] heading RIGHT with tick interval 150,
\* score 0 and the food on {2,1}, one tick yields snake [{2,1}], score 10,
\* tick interval 148 and a game that is not over.
C13_ScenarioAsStated ==
    [][ (ClaimTick /\ ClaimScenarioStart)
           => /\ snake' = <<[x |-> 2, y |-> 1]>>
              /\ score' = 10
              /\ speed' = 148
              /\ ~gameOver' ]_vars

\* C13: from snake [{1,1}] heading RIGHT with tick interval 150, score 0 and
\* the food on {2,1}, one tick yields the grown snake [{2,1},{1,1}], score
\* 10, tick interval 148 and a game that is not over.
C13_Scenario ==
    [][ (ClaimTick /\ ClaimScenarioStart)
           => /\ snake' = <<[x |-> 2, y |-> 1], [x |-> 1, y |-> 1]>>
              /\ score' = 10
              /\ speed' = 148
              /\ ~gameOver' ]_vars

\* The tick of the scenario has just eaten the food on {2,1}.
C13_Witness ==
    /\ op = "tick"
    /\ snake = <<Pos(2, 1), Pos(1, 1)>>
    /\ direction = "RIGHT"
    /\ score = 10
    /\ speed = 148
    /\ "food" \in changedDeps

\* C14: once the game is over, every step other than restart (a tick, a
\* direction request, a pause toggle, the effects of a render) leaves
\* snake, direction, score, food and tick interval unchanged and the game
\* over; and the game becomes over only by a tick whose new head is off
\* the board or on the snake.
C14_GameOverTerminal ==
    [][ /\ (gameOver /\ op' # "restart")
              => /\ gameOver'
                 /\ UNCHANGED <<snake, direction, score, food, speed>>
        /\ (~gameOver /\ gameOver')
              => /\ ClaimTick
                 /\ ~ClaimInGrid \/ ClaimOnSnake ]_vars

\* The timer has fired again on a game that was already over, after the
\* snake ran into the right wall.
C14_Witness ==
    /\ op = "tick"
    /\ gameOver
    /\ gameOverRef
    /\ snake[1].x = 19
    /\ direction = "RIGHT"

\* C15: a tick never moves the head in the direction opposite to the one it
\* moved in at the tick before, whatever direction requests arrived between
\* the two.  The tick before left its old head as the second segment, so a
\* snake of two or more segments is never driven back onto that segment.
C15_NoReversal ==
    [][ (ClaimTick /\ Len(snake) >= 2 /\ ~gameOver)
           => ClaimNewHead # snake[2] ]_vars

\* C16: the food moves only when it is eaten or on restart.  A tick whose
\* new head does not reach the food (a plain move or a collision), a
\* direction request and a pause toggle leave the food where it is, and so
\* does the render that follows each of them.
C16_FoodStays ==
    [][ (\/ ClaimTick /\ ~ClaimReachesFood
         \/ op = "tick" /\ "food" \notin changedDeps
         \/ op' \in {"input", "pause"}
         \/ op \in {"input", "pause"})
           => food' = food ]_vars

\* C17: each tick moves the head in the direction the most recently accepted
\* request left (last writer wins).  A tick steps the head one cell along
\* direction, or ends the game when that cell is off the board or on the
\* snake; direction is written only by an accepted request, which overwrites
\* it, and by restart, never by a tick or a render, so no earlier request is
\* kept for a later tick; and the copy of direction the timer reads is up to
\* date whenever a tick can fire.
C17_LastRequestWins ==
    [][ /\ ClaimTick
              => IF ClaimInGrid /\ ~ClaimOnSnake
                 THEN snake'[1] = ClaimNewHead
                 ELSE gameOver' /\ snake' = snake
        /\ (direction' # direction)
              => \/ op' = "restart"
                 \/ op' = "input" /\ direction' = requested'
        /\ (op' = "idle") => directionRef' = direction' ]_vars

\* Two requests were accepted between two ticks of a snake heading RIGHT,
\* the later one LEFT, and the tick has followed the later one.
C17_Witness ==
    /\ op = "tick"
    /\ gameOver
    /\ ~gameOverRef
    /\ direction = "LEFT"
    /\ snake = <<Pos(12, 10), Pos(11, 10)>>

\* C18: at most one interval is armed at any time; between an event's render
\* and the next event its period is the tick interval of the state (after a
\* tick has changed the interval, from the render that follows it on); and
\* the render that follows restart leaves no interval armed on an earlier
\* state: the one interval then armed was armed on the reinitialized state.
C18_OneTimer ==
    /\ [](/\ Len(gameInterval) <= 1
          /\ (op = "idle")
                => \A i \in 1..Len(gameInterval) : gameInterval[i].speed = speed)
    /\ [][ (op = "restart" /\ op' = "idle")
              => \A i \in 1..Len(gameInterval') :
                    /\ gameInterval'[i].snake = <<[x |-> 10, y |-> 10]>>
                    /\ gameInterval'[i].speed = 150
                    /\ gameInterval'[i].food = food' ]_vars

\* The first food has been eaten and the render after that tick has armed
\* the interval anew, with the lowered period.
C18_Witness ==
    /\ op = "idle"
    /\ speed = 148
    /\ Len(snake) = 2
    /\ gameInterval = <<[food |-> food, speed |-> 148, snake |-> snake]>>

ClaimMax(a, b) == IF a >= b THEN a ELSE b

\* C19: in every reachable state the score is 10 times the number of
\* segments beyond the first and the tick interval is the larger of 50 and
\* 150 minus twice that number; so the score is a non-negative multiple of
\* 10, and from fifty foods on the tick interval is exactly 50.
C19_ScoreAndInterval ==
    /\ score = 10 * (Len(snake) - 1)
    /\ speed = ClaimMax(50, 150 - 2 * (Len(snake) - 1))
    /\ score >= 0
    /\ score % 10 = 0
    /\ (Len(snake) - 1 >= 50) => speed = 50

\* The fifty-first food has been eaten and its render is done: the interval
\* has stayed at 50 while the score went on to 510.
C19_Witness ==
    /\ op = "idle"
    /\ Len(snake) = 52
    /\ score = 510
    /\ speed = 50
    /\ ~gameOver

====
